---------------------------- MODULE Spec2Model ----------------------------
(***************************************************************************)
(* Model of the ShotGrid event leecher, services/leecher/leecher/          *)
(* listener.py: the poll loop ShotgridListener.start_listening, the cursor *)
(* resolution _get_last_event_processed, the filter builder, the event     *)
(* classification inside the batch loop and send_shotgrid_event_to_ayon.   *)
(*                                                                         *)
(* The source system (ShotGrid) is the Project table's auto-sync flag and  *)
(* the append-only EventLogEntry table; the sink system (AYON) is its      *)
(* event history.  Both are shared with the environment, which appends     *)
(* source events and enables projects while the loop runs.                 *)
(***************************************************************************)
EXTENDS Integers, Sequences, FiniteSets, TLC

\* ------------------------------------------------------------------------
\* Bounds of the model
\* ------------------------------------------------------------------------
MaxEvents == 3        \* EventLogEntry rows ever created
MaxDispatch == 2      \* sink records written by one run of the loop

\* id of the first EventLogEntry row of the model; ids grow by one per row
FirstId == 10

\* ------------------------------------------------------------------------
\* Python values
\* ------------------------------------------------------------------------
\* None is kept apart from every event id and from 0
None == -1

\* `not x` for x an int or None
Falsy(x) == x = None \/ x = 0

\* str(n) for n >= 0, as the sequence of its decimal digits
RECURSIVE Str(_)
Str(n) == IF n < 10 THEN <<n>> ELSE Append(Str(n \div 10), n % 10)

\* int(s) for a sequence of decimal digits
RECURSIVE IntOf(_)
IntOf(s) == IF Len(s) = 0 THEN 0
            ELSE 10 * IntOf(SubSeq(s, 1, Len(s) - 1)) + s[Len(s)]

\* ------------------------------------------------------------------------
\* Settings and constants of the service
\* ------------------------------------------------------------------------
Projects == {"p1", "p2"}

\* constants.SG_EVENT_TYPES: event name templates, "{0}" is the entity type
SG_EVENT_TYPES ==
    { <<"Shotgun_", "{0}", "_New">>,
      <<"Shotgun_", "{0}", "_Change">>,
      <<"Shotgun_", "{0}", "_Retirement">>,
      <<"Shotgun_", "{0}", "_Revival">> }

\* event_name.format(entity_type)
Format(tmpl, entity_type) ==
    [i \in DOMAIN tmpl |-> IF tmpl[i] = "{0}" THEN entity_type ELSE tmpl[i]]

\* self.custom_attribs_map: ayon attribute -> ShotGrid field ("tags" is
\* always added by __init__)
custom_attribs_map ==
    ("status" :> <<"status_list">>) @@ ("tags" :> <<"tags">>)

\* the topic the cursor resolution reads and the topic the dispatch writes
LEECH_TOPIC == "shotgrid.leech"
DISPATCH_TOPIC == "shotgrid.event"

\* limit of the batch query
BatchLimit == 50

\* ------------------------------------------------------------------------
\* Source events
\* ------------------------------------------------------------------------
\* The EventLogEntry rows the environment creates, without their id: in
\* project p1 a change of a mapped field by a person, the same change
\* written by the integration's API user under sudo, and a change of a
\* field that is not mapped (an event of a supported type when Shot is an
\* enabled entity, and of no interest when it is not); in project p2 a
\* change of a mapped field by a person.
EventShapes ==
    { [event_type |-> <<"Shotgun_", "Shot", "_Change">>,
       attribute_name |-> <<"sg_", "status_list">>, sudo |-> "none",
       project |-> "p1"],
      [event_type |-> <<"Shotgun_", "Shot", "_Change">>,
       attribute_name |-> <<"sg_", "status_list">>, sudo |-> "ApiUser",
       project |-> "p1"],
      [event_type |-> <<"Shotgun_", "Shot", "_Change">>,
       attribute_name |-> <<"sg_", "cut_in">>, sudo |-> "none",
       project |-> "p1"],
      [event_type |-> <<"Shotgun_", "Shot", "_Change">>,
       attribute_name |-> <<"sg_", "status_list">>, sudo |-> "none",
       project |-> "p2"] }

MkEvent(id, shape) ==
    [id |-> id, event_type |-> shape.event_type,
     attribute_name |-> shape.attribute_name, sudo |-> shape.sudo,
     project |-> shape.project]

VARIABLES
    autosync,               \* Project rows with sg_ayon_auto_sync = True
    log,                    \* the EventLogEntry table, ascending by id
    sink,                   \* AYON event history, in creation order
    sg_enabled_entities,    \* settings: shotgrid_enabled_entities
    pc,                     \* position of start_listening
    base_sg_filters,        \* local of start_listening
    supported_event_types,  \* local of start_listening
    last_event_id,          \* local of start_listening: the cursor
    events,                 \* the rest of the fetched batch
    q,                      \* history: the latest EventLogEntry query
    res,                    \* history: the latest cursor resolution
    last,                   \* history: the latest event the batch loop handled
    startup,                \* history: the cursor resolution of line 202
    batch                   \* history: the latest batch and its self.func calls

vars == <<autosync, log, sink, sg_enabled_entities, pc, base_sg_filters,
          supported_event_types, last_event_id, events, q, res, last,
          startup, batch>>

env == <<autosync, log, sg_enabled_entities>>

\* ------------------------------------------------------------------------
\* Sequences
\* ------------------------------------------------------------------------
\* the first n elements of s (limit=n of sg_session.find)
Take(s, n) == IF Len(s) <= n THEN s ELSE SubSeq(s, 1, n)

\* ------------------------------------------------------------------------
\* Filter builder
\* ------------------------------------------------------------------------
\* _get_supported_event_types
GetSupportedEventTypes(entities) ==
    { Format(t, e) : t \in SG_EVENT_TYPES, e \in entities }

\* _build_shotgrid_filters: [] when no project has auto-sync, else the
\* project clause and, when there are supported event types, the type clause
BuildShotgridFilters(sg_projects, entities) ==
    IF sg_projects = {} THEN <<>>
    ELSE <<[field |-> "project", vals |-> sg_projects]>>
         \o (IF GetSupportedEventTypes(entities) # {}
             THEN <<[field |-> "event_type",
                     vals |-> GetSupportedEventTypes(entities)]>>
             ELSE <<>>)

\* one clause of a ShotGrid "in" filter
ClauseHolds(ev, c) ==
    IF c.field = "project" THEN ev.project \in c.vals
    ELSE ev.event_type \in c.vals

\* sg_session.find / find_one: the rows the filters select (all rows when
\* the filter list is empty)
Matches(ev, flt) == \A i \in DOMAIN flt : ClauseHolds(ev, flt[i])

MatchingIds(flt) == { log[i].id : i \in { j \in DOMAIN log : Matches(log[j], flt) } }

MaxOf(S) == CHOOSE m \in S : \A x \in S : x <= m

EventOf(id) == log[id - FirstId + 1]

\* ------------------------------------------------------------------------
\* Cursor resolution
\* ------------------------------------------------------------------------
\* ayon_api.get_events(topics=["shotgrid.leech"], fields=["hash"])
LeechHistory == SelectSeq(sink, LAMBDA r : r.topic = LEECH_TOPIC)

\* LastLeechId reading the first record yielded instead of the last
LastLeechId_First ==
    IF LeechHistory = <<>> THEN None ELSE IntOf(LeechHistory[1].hash)

\* the loop over get_events: the id of the last record yielded, None if none
LastLeechId ==
    IF LeechHistory = <<>> THEN None
    ELSE IntOf(LeechHistory[Len(LeechHistory)].hash)

\* whether _get_last_event_processed falls back on the EventLogEntry table
ResolveQueriesSource == Falsy(LastLeechId)

\* find_one returns None and last_event["id"] raises TypeError
ResolveRaises(flt) == ResolveQueriesSource /\ MatchingIds(flt) = {}

\* GetLastEventProcessed asking find_one for the oldest matching row
GetLastEventProcessed_Asc(flt) ==
    IF ResolveQueriesSource
    THEN CHOOSE m \in MatchingIds(flt) : \A x \in MatchingIds(flt) : m <= x
    ELSE LastLeechId

\* _get_last_event_processed when it returns
GetLastEventProcessed(flt) ==
    IF ResolveQueriesSource THEN MaxOf(MatchingIds(flt)) ELSE LastLeechId

\* ------------------------------------------------------------------------
\* Classification of one fetched event (body of the batch loop)
\* ------------------------------------------------------------------------
EndsWithChange(event_type) == event_type[Len(event_type)] = "_Change"

\* attribute_name.replace("sg_", "")
ReplaceSg(name) == SelectSeq(name, LAMBDA t : t # "sg_")

Values(f) == { f[k] : k \in DOMAIN f }

IsAttributeChange(ev) ==
    /\ EndsWithChange(ev.event_type)
    /\ ReplaceSg(ev.attribute_name) \in Values(custom_attribs_map)

IsSupportedEvent(ev) == ev.event_type \in supported_event_types

\* IsApiUserEvent looking for a human sudo user
IsApiUserEvent_Human(ev) == ev.sudo = "HumanUser"

\* _is_api_user_event
IsApiUserEvent(ev) == ev.sudo = "ApiUser"

\* CursorAfterClassify leaving the cursor alone on an API user's event
CursorAfterClassify_Keep(ev, cur) ==
    IF IsAttributeChange(ev) \/ IsSupportedEvent(ev)
    THEN IF ~IsApiUserEvent(ev) THEN ev.id ELSE cur
    ELSE cur

\* CursorAfterClassify with the test of _is_api_user_event inverted
CursorAfterClassify_Inverted(ev, cur) ==
    IF IsAttributeChange(ev) \/ IsSupportedEvent(ev)
    THEN IF IsApiUserEvent(ev) THEN ev.id ELSE None
    ELSE cur

\* last_event_id after the if / elif at lines 246-263
CursorAfterClassify(ev, cur) ==
    IF IsAttributeChange(ev) \/ IsSupportedEvent(ev)
    THEN IF ~IsApiUserEvent(ev) THEN ev.id ELSE None
    ELSE cur

\* the classes of section 4.4
Classify(ev) ==
    IF IsAttributeChange(ev) \/ IsSupportedEvent(ev)
    THEN IF IsApiUserEvent(ev) THEN "SelfCaused" ELSE "Accept"
    ELSE "Irrelevant"

\* ------------------------------------------------------------------------
\* Dispatch
\* ------------------------------------------------------------------------
\* the record ayon_api.dispatch_event leaves in the sink history
SinkRecord(ev) == [topic |-> DISPATCH_TOPIC, hash |-> Str(ev.id)]

\* the source event ids this run has dispatched, in order
Dispatched ==
    [i \in DOMAIN SelectSeq(sink, LAMBDA r : r.topic = DISPATCH_TOPIC) |->
        IntOf(SelectSeq(sink, LAMBDA r : r.topic = DISPATCH_TOPIC)[i].hash)]

DispatchedIds == { Dispatched[i] : i \in DOMAIN Dispatched }

\* ------------------------------------------------------------------------
\* Initial state
\* ------------------------------------------------------------------------
NoQuery == [op |-> "none", flt |-> <<>>, cur |-> None, ok |-> TRUE]
NoBatch == [fetched |-> <<>>, calls |-> <<>>]
NoRes == [done |-> FALSE, hit |-> FALSE, src |-> FALSE, result |-> None,
          flt |-> <<>>, matching |-> {}, nsink |-> 0, afterEv |-> None]
NoStartup == [done |-> FALSE, cursor |-> None, rows |-> 0, flt |-> <<>>]
NoLast == [id |-> None, class |-> "none", outcome |-> "none",
           before |-> None, after |-> None]

\* The sink history at startup: empty, or the records an earlier deployment
\* left under the leecher's topic for the rows before and at FirstId
InitSinks(l) ==
    { <<>> } \cup
    (IF l = <<>> THEN {}
     ELSE { <<[topic |-> LEECH_TOPIC, hash |-> Str(FirstId - 1)],
              [topic |-> LEECH_TOPIC, hash |-> Str(FirstId)]>> })

Init ==
    /\ autosync \in {{}, {"p1"}}
    /\ log \in { <<>> } \cup
               { <<MkEvent(FirstId, s)>> : s \in EventShapes }
    /\ sink \in InitSinks(log)
    /\ sg_enabled_entities \in {{}, {"Shot"}}
    /\ pc = "build_filters"
    /\ base_sg_filters = <<>>
    /\ supported_event_types = {}
    /\ last_event_id = None
    /\ events = <<>>
    /\ q = NoQuery
    /\ res = NoRes
    /\ last = NoLast
    /\ startup = NoStartup
    /\ batch = NoBatch

\* ------------------------------------------------------------------------
\* start_listening
\* ------------------------------------------------------------------------
\* the positions of start_listening once an exception has left it, named by
\* the line that raised
Raised == {"raised_202", "raised_211", "raised_217"}

\* the history record of a cursor resolution called with filters flt
ResRecord(flt) ==
    [done |-> TRUE, hit |-> LeechHistory # <<>>, src |-> ResolveQueriesSource,
     result |-> IF ResolveRaises(flt) THEN None ELSE GetLastEventProcessed(flt),
     flt |-> flt, matching |-> MatchingIds(flt),
     nsink |-> Len(Dispatched), afterEv |-> last.id]

\* the history record of the find_one of a resolution, if it issues one
QueryOfResolve(flt) ==
    IF ResolveQueriesSource
    THEN [op |-> "find_one", flt |-> flt, cur |-> None, ok |-> TRUE]
    ELSE q

\* lines 200-201: the filters and the supported event types before the loop
BuildFiltersAtStart ==
    /\ pc = "build_filters"
    /\ base_sg_filters' = BuildShotgridFilters(autosync, sg_enabled_entities)
    /\ supported_event_types' = GetSupportedEventTypes(sg_enabled_entities)
    /\ pc' = "resolve"
    /\ UNCHANGED <<env, sink, last_event_id, events, q, res, last, startup,
                   batch>>

\* line 202: the cursor before the loop, whatever the filters are; the
\* TypeError of line 185 leaves start_listening
ResolveAtStart ==
    /\ pc = "resolve"
    /\ res' = ResRecord(base_sg_filters)
    /\ q' = QueryOfResolve(base_sg_filters)
    /\ IF ResolveRaises(base_sg_filters)
       THEN /\ pc' = "raised_202"
            /\ UNCHANGED <<last_event_id, startup>>
       ELSE /\ pc' = "loop"
            /\ last_event_id' = GetLastEventProcessed(base_sg_filters)
            /\ startup' = [done |-> TRUE, cursor |-> last_event_id',
                           rows |-> Len(log), flt |-> base_sg_filters]
    /\ UNCHANGED <<env, sink, base_sg_filters, supported_event_types, events,
                   last, batch>>

\* lines 205-212: no filters, sleep, build them again, continue
WaitForFilters ==
    /\ pc = "loop"
    /\ base_sg_filters = <<>>
    /\ base_sg_filters' = BuildShotgridFilters(autosync, sg_enabled_entities)
    /\ UNCHANGED <<env, sink, pc, supported_event_types, last_event_id, events,
                   q, res, last, startup, batch>>

\* lines 210-211: the Project query of _build_shotgrid_filters raises; the
\* call is outside the try block
RebuildFails ==
    /\ pc = "loop"
    /\ base_sg_filters = <<>>
    /\ pc' = "raised_211"
    /\ UNCHANGED <<env, sink, base_sg_filters, supported_event_types,
                   last_event_id, events, q, res, last, startup, batch>>

\* lines 216-217: get_events or find_one raises inside
\* _get_last_event_processed; the call is outside the try block
ResolveFails ==
    /\ pc = "loop"
    /\ base_sg_filters # <<>>
    /\ Falsy(last_event_id)
    /\ pc' = "raised_217"
    /\ UNCHANGED <<env, sink, base_sg_filters, supported_event_types,
                   last_event_id, events, q, res, last, startup, batch>>

\* ResolveInLoop with a resolution that stores the cursor it found as a
\* record under the leecher's topic
ResolveInLoop_Records ==
    /\ pc = "loop"
    /\ base_sg_filters # <<>>
    /\ Falsy(last_event_id)
    /\ ~ResolveRaises(base_sg_filters)
    /\ res' = ResRecord(base_sg_filters)
    /\ q' = QueryOfResolve(base_sg_filters)
    /\ pc' = "loop"
    /\ last_event_id' = GetLastEventProcessed(base_sg_filters)
    /\ sink' = Append(sink, [topic |-> LEECH_TOPIC,
                             hash |-> Str(last_event_id')])
    /\ UNCHANGED <<env, base_sg_filters, supported_event_types, events,
                   last, startup, batch>>

\* lines 216-217: the cursor is None (or 0), resolve it again; the call is
\* outside the try block
ResolveInLoop ==
    /\ pc = "loop"
    /\ base_sg_filters # <<>>
    /\ Falsy(last_event_id)
    /\ res' = ResRecord(base_sg_filters)
    /\ q' = QueryOfResolve(base_sg_filters)
    /\ IF ResolveRaises(base_sg_filters)
       THEN pc' = "raised_217" /\ UNCHANGED last_event_id
       ELSE pc' = "loop"
            /\ last_event_id' = GetLastEventProcessed(base_sg_filters)
    /\ UNCHANGED <<env, sink, base_sg_filters, supported_event_types, events,
                   last, startup, batch>>

\* FetchEvents ordering the rows by id descending
FetchEvents_Desc(flt, cursor) ==
    LET asc == SelectSeq([i \in DOMAIN log |-> log[i].id],
                         LAMBDA id : id \in MatchingIds(flt) /\ id > cursor)
    IN Take([i \in DOMAIN asc |-> asc[Len(asc) + 1 - i]], BatchLimit)

\* the rows of the batch query of lines 224-230: the filters, id greater
\* than the cursor, ascending by id, at most BatchLimit of them
FetchEvents(flt, cursor) ==
    Take(SelectSeq([i \in DOMAIN log |-> log[i].id],
                   LAMBDA id : id \in MatchingIds(flt) /\ id > cursor),
         BatchLimit)

\* lines 216-240 with a known cursor: the batch query; an empty answer
\* sleeps and continues
Poll ==
    /\ pc = "loop"
    /\ base_sg_filters # <<>>
    /\ ~Falsy(last_event_id)
    /\ q' = [op |-> "find", flt |-> base_sg_filters, cur |-> last_event_id,
             ok |-> TRUE]
    /\ events' = FetchEvents(base_sg_filters, last_event_id)
    /\ pc' = IF events' = <<>> THEN "loop" ELSE "batch"
    /\ batch' = IF events' = <<>> THEN batch
                ELSE [fetched |-> events', calls |-> <<>>]
    /\ UNCHANGED <<env, sink, base_sg_filters, supported_event_types,
                   last_event_id, res, last, startup>>

\* PollFails without the try block: the exception of the batch query leaves
\* start_listening
PollFails_Escapes ==
    /\ pc = "loop"
    /\ base_sg_filters # <<>>
    /\ ~Falsy(last_event_id)
    /\ q' = [op |-> "find", flt |-> base_sg_filters, cur |-> last_event_id,
             ok |-> FALSE]
    /\ pc' = "raised_224"
    /\ UNCHANGED <<env, sink, base_sg_filters, supported_event_types,
                   last_event_id, events, res, last, startup, batch>>

\* lines 216-224, 271-278: the batch query raises, the error is logged
PollFails ==
    /\ pc = "loop"
    /\ base_sg_filters # <<>>
    /\ ~Falsy(last_event_id)
    /\ q' = [op |-> "find", flt |-> base_sg_filters, cur |-> last_event_id,
             ok |-> FALSE]
    /\ pc' = "loop"
    /\ UNCHANGED <<env, sink, base_sg_filters, supported_event_types,
                   last_event_id, events, res, last, startup, batch>>

\* the history of the batch once self.func was called with event id
WithCall(id) == [batch EXCEPT !.calls = Append(batch.calls, id)]

\* the position after one event of the batch: the next event, or the sleep
\* of lines 274-278 and the next iteration
AfterEvent(rest) == IF rest = <<>> THEN "loop" ELSE "batch"

\* lines 242-267: the event leaves the cursor None (or 0) and is ignored
IgnoreEvent ==
    /\ pc = "batch"
    /\ LET ev == EventOf(Head(events))
           c == CursorAfterClassify(ev, last_event_id)
       IN /\ Falsy(c)
          /\ last_event_id' = c
          /\ last' = [id |-> ev.id, class |-> Classify(ev),
                      outcome |-> "ignored", before |-> last_event_id,
                      after |-> c]
    /\ events' = Tail(events)
    /\ pc' = AfterEvent(events')
    /\ UNCHANGED <<env, sink, base_sg_filters, supported_event_types, q, res,
                   startup, batch>>

\* lines 242-269: the event is handed to self.func, which dispatches it and
\* returns its id
DispatchEvent ==
    /\ pc = "batch"
    /\ Len(Dispatched) < MaxDispatch
    /\ LET ev == EventOf(Head(events))
           c == CursorAfterClassify(ev, last_event_id)
       IN /\ ~Falsy(c)
          /\ sink' = Append(sink, SinkRecord(ev))
          /\ last_event_id' = ev.id
          /\ last' = [id |-> ev.id, class |-> Classify(ev),
                      outcome |-> "dispatched", before |-> last_event_id,
                      after |-> ev.id]
          /\ batch' = WithCall(ev.id)
    /\ events' = Tail(events)
    /\ pc' = AfterEvent(events')
    /\ UNCHANGED <<env, base_sg_filters, supported_event_types, q, res,
                   startup>>

\* DispatchFails putting the cursor back to the one of the batch query
DispatchFails_Rollback ==
    /\ pc = "batch"
    /\ LET ev == EventOf(Head(events))
           c == CursorAfterClassify(ev, last_event_id)
       IN /\ ~Falsy(c)
          /\ last_event_id' = q.cur
          /\ last' = [id |-> ev.id, class |-> Classify(ev),
                      outcome |-> "failed", before |-> last_event_id,
                      after |-> q.cur]
          /\ batch' = WithCall(ev.id)
    /\ events' = <<>>
    /\ pc' = "loop"
    /\ UNCHANGED <<env, sink, base_sg_filters, supported_event_types, q, res,
                   startup>>

\* lines 269-278: self.func raises (the project lookup or dispatch_event
\* fails); the rest of the batch is abandoned
DispatchFails ==
    /\ pc = "batch"
    /\ LET ev == EventOf(Head(events))
           c == CursorAfterClassify(ev, last_event_id)
       IN /\ ~Falsy(c)
          /\ last_event_id' = c
          /\ last' = [id |-> ev.id, class |-> Classify(ev),
                      outcome |-> "failed", before |-> last_event_id,
                      after |-> c]
          /\ batch' = WithCall(ev.id)
    /\ events' = <<>>
    /\ pc' = "loop"
    /\ UNCHANGED <<env, sink, base_sg_filters, supported_event_types, q, res,
                   startup>>

\* ------------------------------------------------------------------------
\* Environment
\* ------------------------------------------------------------------------
\* somebody (or the integration itself) changes something in ShotGrid
AppendEvent(shape) ==
    /\ Len(log) < MaxEvents
    /\ log' = Append(log, MkEvent(FirstId + Len(log), shape))
    /\ UNCHANGED <<autosync, sink, sg_enabled_entities, pc, base_sg_filters,
                   supported_event_types, last_event_id, events, q, res, last,
                   startup, batch>>

\* an operator ticks "AYON Auto Sync" on a project
EnableAutoSync(project) ==
    /\ project \notin autosync
    /\ autosync' = autosync \cup {project}
    /\ UNCHANGED <<log, sink, sg_enabled_entities, pc, base_sg_filters,
                   supported_event_types, last_event_id, events, q, res, last,
                   startup, batch>>

Next ==
    \/ BuildFiltersAtStart
    \/ ResolveAtStart
    \/ WaitForFilters
    \/ RebuildFails
    \/ ResolveInLoop
    \/ ResolveFails
    \/ Poll
    \/ PollFails
    \/ IgnoreEvent
    \/ DispatchEvent
    \/ DispatchFails
    \/ \E shape \in EventShapes : AppendEvent(shape)
    \/ \E project \in Projects : EnableAutoSync(project)

Spec == Init /\ [][Next]_vars

\* the steps of start_listening itself: the while True loop sleeps for the
\* polling interval and goes on, so a step it can take is taken
LoopStep ==
    \/ BuildFiltersAtStart
    \/ ResolveAtStart
    \/ WaitForFilters
    \/ RebuildFails
    \/ ResolveInLoop
    \/ ResolveFails
    \/ Poll
    \/ PollFails
    \/ IgnoreEvent
    \/ DispatchEvent
    \/ DispatchFails

FairSpec == Spec /\ WF_vars(LoopStep)

\* ------------------------------------------------------------------------
\* Properties
\* ------------------------------------------------------------------------
IsMaxOf(m, S) == m \in S /\ \A x \in S : x <= m

LastLeechHash == LeechHistory[Len(LeechHistory)].hash

\* the source event the batch loop handled last
LastEvent == EventOf(last.id)

\* C1: when the dispatch of an accepted event X fails, the cursor after the
\* failure is the cursor from before X was processed (so the next poll query,
\* id > cursor, fetches X again).
C1_FailedDispatchKeepsCursor ==
    (last.class = "Accept" /\ last.outcome = "failed")
        => last.after = last.before

\* C2: the cursor is never at or beyond the id of a source event that
\* matches the filters, is classified Accept, is newer than the cursor
\* resolved at startup and has not been dispatched.
C2_NoEventLost ==
    \A i \in DOMAIN log :
        ( /\ startup.done
          /\ base_sg_filters # <<>>
          /\ Matches(log[i], base_sg_filters)
          /\ Classify(log[i]) = "Accept"
          /\ log[i].id > startup.cursor
          /\ log[i].id \notin DispatchedIds
          /\ ~Falsy(last_event_id) )
        => last_event_id < log[i].id

\* C3: no source event id is dispatched twice by one run of the loop.
C3_AtMostOneDispatchPerEvent ==
    \A i, j \in DOMAIN Dispatched :
        Dispatched[i] = Dispatched[j] => i = j

\* C4: a cursor resolution that runs after the loop has dispatched returns
\* the id of the latest dispatched event.
C4_ResumeFromLastDispatch ==
    (res.done /\ res.nsink > 0) => res.result = Dispatched[res.nsink]

\* C5: with a record under the leecher's topic in the sink history, the
\* resolution returns the integer whose decimal form is the hash of the most
\* recent such record, and no find_one is sent to the EventLogEntry table.
C5_ResolveFromSinkHistory ==
    LeechHistory # <<>> =>
        /\ q.op # "find_one"
        /\ res.done =>
              /\ res.hit /\ ~res.src
              /\ res.result >= 0
              /\ Str(res.result) = LastLeechHash
        /\ startup.done => Str(startup.cursor) = LastLeechHash

\* C5 happens: the loop runs on a cursor read from a two-digit hash
C5_Witness ==
    /\ LeechHistory # <<>>
    /\ startup.done
    /\ Len(LastLeechHash) = 2
    /\ last_event_id = startup.cursor
    /\ pc = "loop"

\* C6: without a record under the leecher's topic the resolution returns the
\* highest id among the rows that match the filters it was given, and on
\* such a first run no row that existed when the cursor was resolved at
\* startup is fetched or dispatched.
C6_StartFromNow ==
    /\ (res.done /\ ~res.hit /\ res.matching # {})
           => IsMaxOf(res.result, res.matching)
    /\ (LeechHistory = <<>> /\ startup.done) =>
           /\ \A i \in DOMAIN events : events[i] >= FirstId + startup.rows
           /\ \A id \in DispatchedIds : id >= FirstId + startup.rows
           /\ last.id # None => last.id >= FirstId + startup.rows

\* C6 happens: a first run that found rows at startup, among them rows its
\* filters do not select, and has dispatched since
C6_Witness ==
    /\ LeechHistory = <<>>
    /\ startup.done
    /\ startup.rows > 1
    /\ startup.cursor < FirstId + startup.rows - 1
    /\ Dispatched # <<>>

\* a step that calls _get_last_event_processed and sees it return
ResolveReturns ==
    /\ ResolveAtStart \/ ResolveInLoop
    /\ pc' \notin Raised

\* what a cursor resolution must leave alone
ResolveReadOnly ==
    UNCHANGED <<sink, log, autosync, sg_enabled_entities, base_sg_filters,
                supported_event_types, events>>

\* C7 as stated: a resolution that follows another one with the same filters
\* and no dispatch in between returns the same id, and changes neither the
\* sink history, nor the source log, nor the loop's other state.
C7_ResolveIdempotent ==
    [][ResolveReturns =>
          /\ ResolveReadOnly
          /\ ( /\ res.done
               /\ res.flt = base_sg_filters
               /\ res.nsink = Len(Dispatched) )
             => res'.result = res.result]_vars

\* C7 amended: the same, when also no row matching the filters was added to
\* the source log between the two resolutions.
C7_ResolveIdempotentSameRows ==
    [][ResolveReturns =>
          /\ ResolveReadOnly
          /\ ( /\ res.done
               /\ res.flt = base_sg_filters
               /\ res.nsink = Len(Dispatched)
               /\ res.matching = MatchingIds(base_sg_filters) )
             => res'.result = res.result]_vars

\* C7 happens: a resolution inside the loop, after a batch and after rows
\* the filters do not select were added, with the filters of the startup
\* resolution and no dispatch so far, returned the startup cursor again
C7_Witness ==
    /\ res.done
    /\ res.afterEv # None
    /\ startup.done
    /\ res.flt = startup.flt
    /\ res.nsink = 0
    /\ res.result = startup.cursor
    /\ last_event_id = res.result

\* C8: every query of the EventLogEntry table (find_one of the resolution,
\* find of the batch) is made with a non-empty filter list.
C8_NoEventLogQueryWithoutFilters ==
    q.op # "none" => q.flt # <<>>

\* C9: no dispatched source event is a Relevant event (mapped attribute
\* change or supported event type) whose sudo_actual_user is an ApiUser, and
\* an event classified SelfCaused is ignored.
C9_SelfCausedNeverDispatched ==
    /\ \A id \in DispatchedIds :
           (IsAttributeChange(EventOf(id)) \/ IsSupportedEvent(EventOf(id)))
               => EventOf(id).sudo # "ApiUser"
    /\ (last.id # None /\ LastEvent.sudo = "ApiUser"
            /\ (IsAttributeChange(LastEvent) \/ IsSupportedEvent(LastEvent)))
           => last.outcome = "ignored"

\* C9 happens: after a dispatch, with a known cursor, the batch loop met an
\* API user's change of a mapped attribute
C9_Witness ==
    /\ last.id # None
    /\ LastEvent.sudo = "ApiUser"
    /\ IsAttributeChange(LastEvent)
    /\ last.before # None
    /\ Dispatched # <<>>

\* the result of the two-step resolution recorded in res
TwoStepResult ==
    IF res.hit THEN Str(res.result) = LastLeechHash
    ELSE IsMaxOf(res.result, res.matching)

\* C10: a SelfCaused event leaves the cursor None; when the event handled
\* last left the cursor None, a cursor the loop holds afterwards is the
\* result of a two-step resolution made after that event, and it is the
\* cursor of the batch query that follows.
C10_SelfCausedForcesResolution ==
    /\ last.class = "SelfCaused" => last.after = None
    /\ (last.class # "none" /\ last.after = None /\ ~Falsy(last_event_id)) =>
           /\ res.done
           /\ res.afterEv = last.id
           /\ last_event_id = res.result
           /\ TwoStepResult
           /\ pc = "batch" => (q.op = "find" /\ q.cur = res.result)

\* C10 happens: a batch fetched with the cursor resolved after a SelfCaused
\* event
C10_Witness ==
    /\ last.class = "SelfCaused"
    /\ pc = "batch"
    /\ ~Falsy(last_event_id)
    /\ q.cur = res.result

\* C11: a batch query made after a dispatch has a cursor that is at least
\* the id of every event dispatched before it.
C11_CursorNeverDecreases ==
    [][(Poll \/ PollFails) =>
          \A id \in DispatchedIds : last_event_id >= id]_vars

\* C12: the ids dispatched by one run of the loop are strictly increasing.
C12_DispatchAscending ==
    \A i, j \in DOMAIN Dispatched :
        i < j => Dispatched[i] < Dispatched[j]

RECURSIVE IsSubseq(_, _)
\* s is t with some elements left out
IsSubseq(s, t) ==
    IF s = <<>> THEN TRUE
    ELSE IF t = <<>> THEN FALSE
    ELSE IF Head(s) = Head(t) THEN IsSubseq(Tail(s), Tail(t))
    ELSE IsSubseq(s, Tail(t))

\* C13: the ids passed to self.func in a batch are a subsequence of the
\* fetched ids, in increasing order, none of them twice.
C13_CallsSubsequenceOfBatch ==
    /\ IsSubseq(batch.calls, batch.fetched)
    /\ \A i, j \in DOMAIN batch.calls :
           i < j => batch.calls[i] < batch.calls[j]

\* C13 happens: both events of a batch of two were handed to self.func
C13_Witness ==
    /\ Len(batch.fetched) = 2
    /\ batch.calls = batch.fetched
    /\ pc = "loop"

C15_NothingEscapesLoop ==
    pc \notin {"raised_211", "raised_217"}

\* C16: an Irrelevant event is not handed to self.func and leaves the cursor
\* as it was.
C16_IrrelevantSkipped ==
    last.class = "Irrelevant" =>
        (last.outcome = "ignored" /\ last.after = last.before)

\* the projects of the filters the batch queries use
FilterProjects ==
    IF base_sg_filters = <<>> THEN {} ELSE base_sg_filters[1].vals

\* C17: while start_listening runs, a project with auto-sync enabled is
\* eventually among the projects of the filters.
C17_NewProjectPickedUp ==
    \A p \in Projects :
        (p \in autosync /\ pc \notin Raised)
            ~> (p \in FilterProjects \/ pc \in Raised)

\* C18: an accepted event is handed to self.func once in its batch; when
\* the dispatch succeeds the record written last has the decimal form of the
\* event's id as hash, and the cursor is that id until the next event is
\* handled.
C18_AcceptDispatchedOnce ==
    last.class = "Accept" =>
        /\ last.outcome # "ignored"
        /\ batch.calls # <<>> =>
               Cardinality({i \in DOMAIN batch.calls :
                               batch.calls[i] = last.id}) = 1
        /\ last.outcome = "dispatched" =>
               /\ sink[Len(sink)].topic = DISPATCH_TOPIC
               /\ sink[Len(sink)].hash = Str(last.id)
               /\ IntOf(sink[Len(sink)].hash) = last.id
               /\ last_event_id = last.id

\* C18 happens: an accepted event with a two-digit id was dispatched and the
\* loop went on to poll with its id
C18_Witness ==
    /\ last.class = "Accept"
    /\ last.outcome = "dispatched"
    /\ pc = "loop"
    /\ q.op = "find"
    /\ q.cur = last.id

\* C19: a batch query has non-empty filters and a known cursor, and the
\* cursor it uses before any event was handled (the one of line 202) was
\* resolved with non-empty filters.
C19_PollOnlyInPollingState ==
    q.op = "find" =>
        /\ q.flt # <<>>
        /\ ~Falsy(q.cur)
        /\ last.id = None => startup.flt # <<>>

\* C20: after a failed self.func call the cursor the next batch query uses
\* is at least the id of every event of the batch dispatched before it.
C20_NoRedispatchAfterFailure ==
    (last.outcome = "failed" /\ pc = "loop") =>
        /\ ~Falsy(last_event_id)
        /\ batch.calls # <<>>
        /\ batch.calls[Len(batch.calls)] = last.id
        /\ \A i \in 1..(Len(batch.calls) - 1) :
               batch.calls[i] <= last_event_id

\* C20 happens: the second call of a batch failed and the loop has polled
\* again with the cursor it was left with
C20_Witness ==
    /\ last.outcome = "failed"
    /\ Len(batch.calls) >= 2
    /\ pc = "loop"
    /\ q.op = "find"
    /\ q.cur = last_event_id
    /\ q.cur >= last.id

=============================================================================
